---- MODULE Spec2Model ----
(***************************************************************************)
(* A model of the Wiro AI SDK: the request signer (generateAuthHeaders),   *)
(* the client (WiroClient: constructor, run, getTaskDetail, killTask,      *)
(* cancelTask) and the poller of the examples (waitForTaskCompletion).     *)
(*                                                                         *)
(* JavaScript values are modelled as follows.  A string is a TLA+ string.  *)
(* An object with optional properties is a record whose domain holds only  *)
(* the properties that are present: a property that is `undefined` is      *)
(* absent from the domain.  An `await` is a position of the caller: the    *)
(* code before it is one step, the code after it is the next step.         *)
(***************************************************************************)
EXTENDS Integers, Sequences, FiniteSets, TLC

VARIABLES
    client,      \* the WiroClient object: its construction state and fields
    options,     \* the options object handed to the constructor
    now,         \* Date.now(), in milliseconds
    ticks,       \* number of times the clock has advanced on its own
    netCalls,    \* number of fetch() invocations made so far
    lastRequest, \* the request most recently handed to fetch()
    call,        \* per call site: the operation in progress and its outcome
    opsLeft,     \* operations the call sites may still start
    received,    \* per call site: what the fetch of its operation settled with
    pc,          \* waitForTaskCompletion: position in the function
    config,      \* waitForTaskCompletion: the PollingConfig argument
    taskid,      \* waitForTaskCompletion: the taskid argument
    maxAttempts, \* waitForTaskCompletion: const maxAttempts
    intervalMs,  \* waitForTaskCompletion: const intervalMs
    attempt,     \* waitForTaskCompletion: the loop variable
    outcome,     \* waitForTaskCompletion: how the promise settled
    calls,       \* history: getTaskDetail invocations made by the loop
    waits,       \* history: setTimeout waits scheduled by the loop
    waitedMs,    \* history: sum of the scheduled waits, in milliseconds
    outstanding, \* history: getTaskDetail calls of the loop not yet settled
    observed,    \* history: responses the loop has looked at
    nonTerminal, \* history: responses observed with a non-terminal status
    lastDetail,  \* history: the response most recently observed by the loop
    sentAt       \* history: the clock reading of the loop's latest request

clientVars == <<client, options, now, ticks, netCalls, lastRequest>>
callVars   == <<call, opsLeft, received>>
pollVars   == <<pc, config, taskid, maxAttempts, intervalMs, attempt, outcome,
                calls, waits, waitedMs, outstanding, observed, nonTerminal,
                lastDetail, sentAt>>
vars       == <<clientVars, callVars, pollVars>>

----------------------------------------------------------------------------
(* Bounds of the model *)

MaxOps      == 2      \* operations started by the call sites in one run
MaxTicks    == 1      \* clock readings beyond the first
MaxListLen  == 2      \* longest tasklist of a response
MaxGivenAttempts == 3 \* largest maxAttempts given explicitly in a config

(* Program constants *)

DefaultBaseUrl     == "https://api.wiro.ai/v1"
MinCredentialLen   == 8
DefaultMaxAttempts == 60
DefaultIntervalMs  == 2000
MsPerSecond        == 1000

StartMs == 1700        \* the first clock reading, in milliseconds
TickMs  == 600         \* the clock advances in steps of 600 ms

None == [kind |-> "none"]

----------------------------------------------------------------------------
(* JavaScript helpers *)

\* obj.f is present (not undefined)
Has(obj, f) == f \in DOMAIN obj

\* !obj.f for an optional string property: undefined and "" are falsy
Falsy(obj, f) == ~Has(obj, f) \/ obj[f] = ""

\* String.prototype.startsWith
StartsWith(s, p) == Len(s) >= Len(p) /\ SubSeq(s, 1, Len(p)) = p

\* mutant: the base URL is stored as it was given
StripTrailingSlash_Keep(s) == s

\* s.replace(/\/$/, ""): drops one trailing slash
StripTrailingSlash(s) ==
    IF Len(s) > 0 /\ SubSeq(s, Len(s), Len(s)) = "/"
    THEN SubSeq(s, 1, Len(s) - 1)
    ELSE s

Threw(msg) == [threw |-> TRUE, message |-> msg]

----------------------------------------------------------------------------
(* src/auth.ts as built into dist/index.js *)

\* createHmac("sha256", key).update(message).digest("hex"), kept symbolic
HmacSha256Hex(key, message) == <<"hmac-sha256", key, message>>

\* mutant: the signed message is the nonce alone
generateAuthHeaders_UnsignedSecret(apiKey, apiSecret, nowMs) ==
    IF apiKey = "" \/ Len(apiKey) < MinCredentialLen
    THEN Threw("Invalid apiKey: must be at least 8 characters long")
    ELSE IF apiSecret = "" \/ Len(apiSecret) < MinCredentialLen
    THEN Threw("Invalid apiSecret: must be at least 8 characters long")
    ELSE LET nonce == ToString(nowMs \div MsPerSecond)
             message == nonce
         IN [threw |-> FALSE,
             headers |-> [xApiKey |-> apiKey,
                          xNonce |-> nonce,
                          xSignature |-> HmacSha256Hex(apiKey, message)]]

\* mutant: the nonce is the clock reading in milliseconds
generateAuthHeaders_MsNonce(apiKey, apiSecret, nowMs) ==
    IF apiKey = "" \/ Len(apiKey) < MinCredentialLen
    THEN Threw("Invalid apiKey: must be at least 8 characters long")
    ELSE IF apiSecret = "" \/ Len(apiSecret) < MinCredentialLen
    THEN Threw("Invalid apiSecret: must be at least 8 characters long")
    ELSE LET nonce == ToString(nowMs)
             message == apiSecret \o nonce
         IN [threw |-> FALSE,
             headers |-> [xApiKey |-> apiKey,
                          xNonce |-> nonce,
                          xSignature |-> HmacSha256Hex(apiKey, message)]]

\* mutant: the secret is sent in the place of the key
generateAuthHeaders_SecretAsKey(apiKey, apiSecret, nowMs) ==
    IF apiKey = "" \/ Len(apiKey) < MinCredentialLen
    THEN Threw("Invalid apiKey: must be at least 8 characters long")
    ELSE IF apiSecret = "" \/ Len(apiSecret) < MinCredentialLen
    THEN Threw("Invalid apiSecret: must be at least 8 characters long")
    ELSE LET nonce == ToString(nowMs \div MsPerSecond)
             message == apiSecret \o nonce
         IN [threw |-> FALSE,
             headers |-> [xApiKey |-> apiSecret,
                          xNonce |-> nonce,
                          xSignature |-> HmacSha256Hex(apiKey, message)]]

\* mutant: the nonce counts tenths of a second
generateAuthHeaders_DeciNonce(apiKey, apiSecret, nowMs) ==
    IF apiKey = "" \/ Len(apiKey) < MinCredentialLen
    THEN Threw("Invalid apiKey: must be at least 8 characters long")
    ELSE IF apiSecret = "" \/ Len(apiSecret) < MinCredentialLen
    THEN Threw("Invalid apiSecret: must be at least 8 characters long")
    ELSE LET nonce == ToString(nowMs \div 100)
             message == apiSecret \o nonce
         IN [threw |-> FALSE,
             headers |-> [xApiKey |-> apiKey,
                          xNonce |-> nonce,
                          xSignature |-> HmacSha256Hex(apiKey, message)]]

generateAuthHeaders(apiKey, apiSecret, nowMs) ==
    IF apiKey = "" \/ Len(apiKey) < MinCredentialLen
    THEN Threw("Invalid apiKey: must be at least 8 characters long")
    ELSE IF apiSecret = "" \/ Len(apiSecret) < MinCredentialLen
    THEN Threw("Invalid apiSecret: must be at least 8 characters long")
    ELSE LET nonce == ToString(nowMs \div MsPerSecond)
             message == apiSecret \o nonce
         IN [threw |-> FALSE,
             headers |-> [xApiKey |-> apiKey,
                          xNonce |-> nonce,
                          xSignature |-> HmacSha256Hex(apiKey, message)]]

----------------------------------------------------------------------------
(* src/auth.ts, the source file of the signer.  args holds the arguments   *)
(* apiKey and apiSecret; an argument that is undefined is absent from it.  *)

\* createHmac rejects a key that is not a string; undefined + nonce is the
\* string "undefined" followed by the nonce
generateAuthHeadersSource(args, nowMs) ==
    LET nonce == ToString(nowMs \div MsPerSecond)
        message == (IF Has(args, "apiSecret") THEN args.apiSecret
                    ELSE "undefined") \o nonce
    IN IF ~Has(args, "apiKey")
       THEN Threw("The \"key\" argument must be of type string")
       ELSE [threw |-> FALSE,
             headers |-> [xApiKey |-> args.apiKey,
                          xNonce |-> nonce,
                          xSignature |-> HmacSha256Hex(args.apiKey, message)]]

----------------------------------------------------------------------------
(* src/client.ts as built into dist/index.js: the constructor *)

\* the value of options.baseUrl after destructuring with its default
BaseUrlOf(opts) == IF Has(opts, "baseUrl") THEN opts.baseUrl ELSE DefaultBaseUrl

\* mutant: the check of apiSecret is missing
WiroClientConstructor_NoSecretCheck(opts) ==
    IF Falsy(opts, "apiKey")
    THEN [state |-> "failed", message |-> "WiroClient requires an apiKey"]
    ELSE IF /\ BaseUrlOf(opts) # ""
            /\ ~StartsWith(BaseUrlOf(opts), "http://")
            /\ ~StartsWith(BaseUrlOf(opts), "https://")
    THEN [state |-> "failed",
          message |-> "Invalid baseUrl: must start with http:// or https://"]
    ELSE [state |-> "ready",
          apiKey |-> opts.apiKey,
          apiSecret |-> IF Has(opts, "apiSecret") THEN opts.apiSecret ELSE "",
          baseUrl |-> StripTrailingSlash(BaseUrlOf(opts))]

WiroClientConstructor(opts) ==
    IF Falsy(opts, "apiKey")
    THEN [state |-> "failed", message |-> "WiroClient requires an apiKey"]
    ELSE IF Falsy(opts, "apiSecret")
    THEN [state |-> "failed", message |-> "WiroClient requires an apiSecret"]
    ELSE IF /\ BaseUrlOf(opts) # ""
            /\ ~StartsWith(BaseUrlOf(opts), "http://")
            /\ ~StartsWith(BaseUrlOf(opts), "https://")
    THEN [state |-> "failed",
          message |-> "Invalid baseUrl: must start with http:// or https://"]
    ELSE [state |-> "ready",
          apiKey |-> opts.apiKey,
          apiSecret |-> opts.apiSecret,
          baseUrl |-> StripTrailingSlash(BaseUrlOf(opts))]

----------------------------------------------------------------------------
(* src/client.ts as built into dist/index.js: the operations.  Each        *)
(* operator is the code of the method up to its `await fetch(...)`: it     *)
(* either throws or yields the request handed to fetch.                    *)

\* { ...authHeaders, "Content-Type": "application/json" }
JsonHeaders(auth) ==
    [xApiKey |-> auth.xApiKey, xNonce |-> auth.xNonce,
     xSignature |-> auth.xSignature, contentType |-> "application/json"]

\* fetch(url, { method: "POST", headers, body: JSON.stringify(obj) })
PostJson(url, auth, obj) ==
    [threw |-> FALSE,
     request |-> [url |-> url, method |-> "POST",
                  headers |-> JsonHeaders(auth), body |-> [json |-> obj]]]

\* mutant: the precondition on taskid and tasktoken is missing
getTaskDetail_NoCheck(cl, taskInfo, nowMs) ==
    LET auth == generateAuthHeaders(cl.apiKey, cl.apiSecret, nowMs)
    IN IF auth.threw THEN auth
       ELSE PostJson(cl.baseUrl \o "/Task/Detail", auth.headers, taskInfo)

getTaskDetail(cl, taskInfo, nowMs) ==
    IF Falsy(taskInfo, "taskid") /\ Falsy(taskInfo, "tasktoken")
    THEN Threw("getTaskDetail requires either a taskid or a tasktoken")
    ELSE LET auth == generateAuthHeaders(cl.apiKey, cl.apiSecret, nowMs)
         IN IF auth.threw THEN auth
            ELSE PostJson(cl.baseUrl \o "/Task/Detail", auth.headers, taskInfo)

killTask(cl, taskInfo, nowMs) ==
    IF Falsy(taskInfo, "taskid") /\ Falsy(taskInfo, "tasktoken")
    THEN Threw("killTask requires either a taskid or a tasktoken")
    ELSE LET auth == generateAuthHeaders(cl.apiKey, cl.apiSecret, nowMs)
         IN IF auth.threw THEN auth
            ELSE PostJson(cl.baseUrl \o "/Task/Kill", auth.headers, taskInfo)

\* args is the object { taskid }: the taskid property is absent when the
\* argument is undefined
cancelTask(cl, args, nowMs) ==
    LET auth == generateAuthHeaders(cl.apiKey, cl.apiSecret, nowMs)
    IN IF auth.threw THEN auth
       ELSE PostJson(cl.baseUrl \o "/Task/Cancel", auth.headers, args)

----------------------------------------------------------------------------
(* src/client.ts as built into dist/index.js: run.  The values of params   *)
(* and the content of a file descriptor are JavaScript values of several   *)
(* types; each is a record that carries its type.                          *)

Str(s)    == [type |-> "string", v |-> s]
Num(n)    == [type |-> "number", v |-> n]
Arr(seq)  == [type |-> "array", v |-> seq]
Obj(seq)  == [type |-> "object", entries |-> seq]
Null      == [type |-> "null"]
Undefined == [type |-> "undefined"]

\* String(value) for a string, a number, null or undefined
StringOf(value) ==
    IF value.type = "string" THEN value.v
    ELSE IF value.type = "number" THEN ToString(value.v)
    ELSE value.type

\* the loop over Object.entries(params): one form field per scalar, one per
\* element of an array, none for null and undefined
RECURSIVE ParamFields(_)
ParamFields(entries) ==
    IF entries = <<>> THEN <<>>
    ELSE LET e == Head(entries)
             rest == ParamFields(Tail(entries))
         IN IF e.value.type \in {"undefined", "null"} THEN rest
            ELSE IF e.value.type = "array"
            THEN [i \in 1 .. Len(e.value.v) |->
                     [name |-> e.key, value |-> StringOf(e.value.v[i])]] \o rest
            ELSE <<[name |-> e.key, value |-> StringOf(e.value)]>> \o rest

\* mutant: an array is appended as one field, like a scalar
FormFields_ListAsOneField(params) ==
    IF params.type = "object"
    THEN ParamFields([i \in 1 .. Len(params.entries) |->
                        IF params.entries[i].value.type = "array"
                        THEN [key |-> params.entries[i].key, value |-> Str("list")]
                        ELSE params.entries[i]])
    ELSE <<>>

\* if (params) { ... }: the fields of the form that come from params
FormFields(params) ==
    IF params.type = "object" THEN ParamFields(params.entries) ELSE <<>>

\* path.split(/[/\\]/): the last element of the result
RECURSIVE LastSegment(_)
LastSegment(path) ==
    IF Len(path) = 0 THEN ""
    ELSE LET last == SubSeq(path, Len(path), Len(path))
         IN IF last = "/" \/ last = "\\" THEN ""
            ELSE LastSegment(SubSeq(path, 1, Len(path) - 1)) \o last

\* Bun.file(path): a reference to the file, which is not opened or read
\* here (examples/virtual-try-on-local-files.ts asks the reference whether
\* the file exists); it does not throw for a string path
BunFile(path) == [threw |-> FALSE, value |-> [type |-> "BunFile", path |-> path]]

\* the body of the loop over files: the part appended to the form for one
\* file descriptor, or the error thrown by the catch block
FilePart(fileParam) ==
    IF fileParam.file.type = "string"
    THEN LET bunFile == BunFile(fileParam.file.v)
             segment == LastSegment(fileParam.file.v)
         IN IF bunFile.threw
            THEN [threw |-> TRUE, message |-> "Failed to read file at",
                  path |-> fileParam.file.v, errorMsg |-> bunFile.message]
            ELSE [threw |-> FALSE,
                  part |-> [name |-> fileParam.name,
                            data |-> bunFile.value,
                            filename |->
                               IF ~Falsy(fileParam, "filename")
                               THEN fileParam.filename
                               ELSE IF segment # "" THEN segment
                               ELSE fileParam.name]]
    ELSE [threw |-> FALSE,
          part |-> [name |-> fileParam.name,
                    data |-> fileParam.file,
                    filename |->
                       IF ~Falsy(fileParam, "filename")
                       THEN fileParam.filename
                       ELSE IF ~Falsy(fileParam.file, "name")
                       THEN fileParam.file.name
                       ELSE fileParam.name \o ".bin"]]

\* for (const fileParam of files): the parts in order, up to the first
\* descriptor that throws
RECURSIVE FileParts(_)
FileParts(files) ==
    IF files = <<>> THEN [threw |-> FALSE, parts |-> <<>>]
    ELSE LET first == FilePart(Head(files))
         IN IF first.threw THEN first
            ELSE LET rest == FileParts(Tail(files))
                 IN IF rest.threw THEN rest
                    ELSE [threw |-> FALSE, parts |-> <<first.part>> \o rest.parts]

\* files && files.length > 0
HasFiles(args) == Has(args, "files") /\ Len(args.files) > 0

\* mutant: the multipart branch also declares a JSON content type
run_JsonHeaders(cl, args, nowMs) ==
    LET auth == generateAuthHeaders(cl.apiKey, cl.apiSecret, nowMs)
        url == cl.baseUrl \o "/Run/" \o args.owner \o "/" \o args.model
    IN IF auth.threw THEN auth
       ELSE IF HasFiles(args)
       THEN LET files == FileParts(args.files)
            IN IF files.threw THEN files
               ELSE [threw |-> FALSE,
                     request |-> [url |-> url, method |-> "POST",
                                  headers |-> JsonHeaders(auth.headers),
                                  body |-> [form |-> FormFields(args.params)
                                                       \o files.parts]]]
       ELSE PostJson(url, auth.headers, args.params)

\* args is the argument list: owner, model, params and, when given, files
run(cl, args, nowMs) ==
    LET auth == generateAuthHeaders(cl.apiKey, cl.apiSecret, nowMs)
        url == cl.baseUrl \o "/Run/" \o args.owner \o "/" \o args.model
    IN IF auth.threw THEN auth
       ELSE IF HasFiles(args)
       THEN LET files == FileParts(args.files)
            IN IF files.threw THEN files
               ELSE [threw |-> FALSE,
                     request |-> [url |-> url, method |-> "POST",
                                  headers |-> auth.headers,
                                  body |-> [form |-> FormFields(args.params)
                                                       \o files.parts]]]
       ELSE PostJson(url, auth.headers, args.params)

\* response.ok: the status is in the range 200-299
ResponseOk(status) == status >= 200 /\ status <= 299

\* mutant: response.ok is not tested
SettleFetch_IgnoreStatus(fetched) ==
    IF fetched.kind = "reject"
    THEN Threw("fetch failed")
    ELSE IF fetched.json = None
    THEN Threw("JSON Parse error")
    ELSE [threw |-> FALSE, value |-> fetched.json]

\* mutant: a body whose result is false is raised as an error
SettleFetch_ChecksResult(fetched) ==
    IF fetched.kind = "reject"
    THEN Threw("fetch failed")
    ELSE IF ~ResponseOk(fetched.status)
    THEN [threw |-> TRUE, message |-> "Wiro API request failed",
          status |-> fetched.status, statusText |-> fetched.statusText,
          errorText |-> fetched.text]
    ELSE IF fetched.json = None
    THEN Threw("JSON Parse error")
    ELSE IF Has(fetched.json, "result") /\ fetched.json.result = FALSE
    THEN Threw("Wiro API returned an error")
    ELSE [threw |-> FALSE, value |-> fetched.json]

\* The code after `await fetch(...)`, the same in every operation.  A
\* network failure rejects the fetch promise; a body that is not JSON
\* makes response.json() reject.
SettleFetch(fetched) ==
    IF fetched.kind = "reject"
    THEN Threw("fetch failed")
    ELSE IF ~ResponseOk(fetched.status)
    THEN [threw |-> TRUE, message |-> "Wiro API request failed",
          status |-> fetched.status, statusText |-> fetched.statusText,
          errorText |-> fetched.text]
    ELSE IF fetched.json = None
    THEN Threw("JSON Parse error")
    ELSE [threw |-> FALSE, value |-> fetched.json]

----------------------------------------------------------------------------
(* The network: what fetch() may settle with *)

HttpResponse(status, statusText, text, json) ==
    [kind |-> "response", status |-> status, statusText |-> statusText,
     text |-> text, json |-> json]

NetworkFailure ==
    [kind |-> "reject", status |-> 0, statusText |-> "", text |-> "",
     json |-> None]

ErrorResponses ==
    { HttpResponse(500, "Internal Server Error", "boom", None),
      HttpResponse(200, "OK", "<html>", None),
      NetworkFailure }

\* bodies of the Task/Kill and Task/Cancel endpoints
TaskOpBodies ==
    { [errors |-> <<>>, result |-> TRUE],
      [errors |-> <<"Task not found">>, result |-> FALSE] }

Statuses ==
    { "task_queue", "task_postprocess_end", "task_cancel", "task_error" }

Tasks == [id : {"2221"}, status : Statuses, debugerror : {"", "oom"}]

\* the tasks that follow the first one in a list
LaterTasks == { t \in Tasks : t.status \in {"task_postprocess_end", "task_cancel"}
                               /\ t.debugerror = "" }

RECURSIVE TaskLists(_)
TaskLists(n) ==
    IF n = 0 THEN { <<>> }
    ELSE LET shorter == TaskLists(n - 1)
         IN shorter
            \cup { Append(l, t) : l \in { x \in shorter : Len(x) = n - 1 },
                                  t \in IF n = 1 THEN Tasks ELSE LaterTasks }

\* bodies of the Task/Detail endpoint; the last one has no tasklist
DetailBodies ==
    { [errors |-> <<>>, result |-> TRUE, tasklist |-> l] : l \in TaskLists(MaxListLen) }
    \cup { [errors |-> <<"Unauthorized">>, result |-> FALSE] }

Ok(json) == HttpResponse(200, "OK", "", json)

----------------------------------------------------------------------------
(* The clock *)

Tick ==
    /\ ticks < MaxTicks
    /\ now' = now + TickMs
    /\ ticks' = ticks + 1

----------------------------------------------------------------------------
(* examples/shared/helpers.ts: waitForTaskCompletion *)

\* mutant: obj.f || dflt, which replaces a zero as well
Coalesce_Or(obj, f, dflt) == IF Has(obj, f) /\ obj[f] # 0 THEN obj[f] ELSE dflt

\* obj.f ?? dflt
Coalesce(obj, f, dflt) == IF Has(obj, f) THEN obj[f] ELSE dflt

\* (maxAttempts * intervalMs) / 1000: the quotient is kept as a fraction,
\* JavaScript numbers are not integers
TimeoutSeconds(maxA, intMs) == [num |-> maxA * intMs, den |-> MsPerSecond]

\* examples/shared/test-helpers.ts: the timeout the tests expect
calculateTimeout(maxA, intMs) == [num |-> maxA * intMs, den |-> 1000]

SameNumber(a, b) == a.num * b.den = b.num * a.den

TimeoutError(maxA, intMs) ==
    [threw |-> TRUE, message |-> "Task did not complete within",
     seconds |-> TimeoutSeconds(maxA, intMs)]

\* mutant: the loop stops one attempt early
LoopContinues_Strict(att, maxA) == att < maxA

\* mutant: the loop runs one attempt too many
LoopContinues_OneMore(att, maxA) == att <= maxA + 1

\* the loop condition: attempt <= maxAttempts
LoopContinues(att, maxA) == att <= maxA

\* !detail.tasklist || detail.tasklist.length === 0
TaskListEmpty(detail) == ~Has(detail, "tasklist") \/ Len(detail.tasklist) = 0

\* mutant: the last task of the list is taken
FirstTask_Last(detail) == detail.tasklist[Len(detail.tasklist)]

\* detail.tasklist[0]
FirstTask(detail) == detail.tasklist[1]

\* mutant: the else-if branch for task_cancel is missing
Classify_NoCancel(status) ==
    IF status = "task_postprocess_end" THEN "success" ELSE "running"

\* mutant: a status outside the known vocabulary is rejected
Classify_Closed(status) ==
    IF status = "task_postprocess_end" THEN "success"
    ELSE IF status = "task_cancel" THEN "cancelled"
    ELSE IF status \in {"task_queue", "task_accept", "task_assign",
                        "task_preprocess_start", "task_preprocess_end",
                        "task_start", "task_output", "task_postprocess_start"}
    THEN "running"
    ELSE "cancelled"

\* the if / else-if on status; everything else falls through
Classify(status) ==
    IF status = "task_postprocess_end" THEN "success"
    ELSE IF status = "task_cancel" THEN "cancelled"
    ELSE "running"

\* mutant: the wait is scheduled after the last attempt too
ShouldWait_Always(att, maxA) == att <= maxA

\* if (attempt < maxAttempts) await setTimeout
ShouldWait(att, maxA) == att < maxA

\* examples/shared/test-helpers.ts: taskStatuses.terminal
TerminalStatuses == {"task_postprocess_end", "task_cancel"}

\* a response that shows a task, and shows it still in progress
RunningObservation(detail) ==
    /\ Has(detail, "tasklist")
    /\ Len(detail.tasklist) > 0
    /\ detail.tasklist[1].status \notin TerminalStatuses

\* mutant: an empty task list is retried like a task in progress
PollDecide_RetryEmpty(detail, att, maxA) ==
    IF TaskListEmpty(detail)
    THEN IF att < maxA THEN [do |-> "wait"] ELSE [do |-> "next"]
    ELSE LET task == detail.tasklist[1]
         IN IF task.status = "task_postprocess_end"
            THEN [do |-> "return", task |-> task]
            ELSE IF task.status = "task_cancel"
            THEN [do |-> "throw", error |-> Threw("Task was cancelled")]
            ELSE IF att < maxA
            THEN [do |-> "wait"]
            ELSE [do |-> "next"]

\* mutant: a cancelled task anywhere in the list ends the poll
PollDecide_AnyCancelled(detail, att, maxA) ==
    IF TaskListEmpty(detail)
    THEN [do |-> "throw", error |-> Threw("Task not found in response")]
    ELSE LET task == FirstTask(detail)
             class == Classify(task.status)
         IN IF class = "success"
            THEN [do |-> "return", task |-> task]
            ELSE IF \E i \in 1 .. Len(detail.tasklist) :
                       Classify(detail.tasklist[i].status) = "cancelled"
            THEN [do |-> "throw", error |-> Threw("Task was cancelled")]
            ELSE IF ShouldWait(att, maxA)
            THEN [do |-> "wait"]
            ELSE [do |-> "next"]

\* the loop body after `await client.getTaskDetail`: what the loop does
\* with the response of attempt att
PollDecide(detail, att, maxA) ==
    IF TaskListEmpty(detail)
    THEN [do |-> "throw", error |-> Threw("Task not found in response")]
    ELSE LET task == FirstTask(detail)
             class == Classify(task.status)
         IN IF class = "success"
            THEN [do |-> "return", task |-> task]
            ELSE IF class = "cancelled"
            THEN [do |-> "throw", error |-> Threw("Task was cancelled")]
            ELSE IF ShouldWait(att, maxA)
            THEN [do |-> "wait"]
            ELSE [do |-> "next"]

\* The loop head with attempt = att: either the next getTaskDetail call is
\* made (and the function suspends on it, or the call throws), or the loop
\* ends and the timeout error is thrown.  out is the number of calls of the
\* loop still outstanding, nowMs the clock reading of the call.
PollIssue(att, maxA, intMs, tid, out, nowMs) ==
    /\ attempt' = att
    /\ IF LoopContinues(att, maxA)
       THEN LET r == getTaskDetail(client, [taskid |-> tid], nowMs)
            IN /\ calls' = calls + 1
               /\ IF r.threw
                  THEN /\ outcome' = [kind |-> "threw", error |-> r]
                       /\ pc' = "done"
                       /\ outstanding' = out
                       /\ UNCHANGED <<netCalls, lastRequest, sentAt>>
                  ELSE /\ netCalls' = netCalls + 1
                       /\ lastRequest' = r.request
                       /\ sentAt' = nowMs
                       /\ outstanding' = out + 1
                       /\ pc' = "awaitDetail"
                       /\ UNCHANGED outcome
       ELSE /\ outcome' = [kind |-> "threw", error |-> TimeoutError(maxA, intMs)]
            /\ pc' = "done"
            /\ outstanding' = out
            /\ UNCHANGED <<calls, netCalls, lastRequest, sentAt>>

\* waitForTaskCompletion(client, tid, cfg) is called: the defaults are
\* applied and the loop is entered
PollStart(cfg, tid) ==
    /\ pc = "start"
    /\ config' = cfg
    /\ taskid' = tid
    /\ maxAttempts' = Coalesce(cfg, "maxAttempts", DefaultMaxAttempts)
    /\ intervalMs' = Coalesce(cfg, "intervalMs", DefaultIntervalMs)
    /\ PollIssue(1, maxAttempts', intervalMs', tid, outstanding, now)
    /\ UNCHANGED <<client, options, now, ticks, callVars, waits, waitedMs,
                   observed, nonTerminal, lastDetail>>

\* mutant: a failed call is taken for a task in progress
PollObserve_Swallow(fetched) ==
    /\ pc = "awaitDetail"
    /\ LET s == SettleFetch(fetched)
           d == IF s.threw
                THEN IF ShouldWait(attempt, maxAttempts)
                     THEN [do |-> "wait"] ELSE [do |-> "next"]
                ELSE PollDecide(s.value, attempt, maxAttempts)
       IN /\ observed' = IF s.threw THEN observed ELSE observed + 1
          /\ lastDetail' = IF s.threw THEN lastDetail ELSE s.value
          /\ nonTerminal' = IF ~s.threw /\ RunningObservation(s.value)
                            THEN nonTerminal + 1 ELSE nonTerminal
          /\ CASE d.do = "return" ->
                    /\ outcome' = [kind |-> "returned", task |-> d.task]
                    /\ pc' = "done"
                    /\ outstanding' = outstanding - 1
                    /\ UNCHANGED <<attempt, calls, netCalls,
                                   lastRequest, sentAt, waits, waitedMs>>
               [] d.do = "throw" ->
                    /\ outcome' = [kind |-> "threw", error |-> d.error]
                    /\ pc' = "done"
                    /\ outstanding' = outstanding - 1
                    /\ UNCHANGED <<attempt, calls, netCalls,
                                   lastRequest, sentAt, waits, waitedMs>>
               [] d.do = "wait" ->
                    /\ pc' = "sleep"
                    /\ waits' = waits + 1
                    /\ waitedMs' = waitedMs + intervalMs
                    /\ outstanding' = outstanding - 1
                    /\ UNCHANGED <<attempt, calls, netCalls,
                                   lastRequest, sentAt, outcome>>
               [] d.do = "next" ->
                    /\ PollIssue(attempt + 1, maxAttempts, intervalMs,
                                 taskid, outstanding - 1, now)
                    /\ UNCHANGED <<waits, waitedMs>>
    /\ UNCHANGED <<client, options, now, ticks, callVars, config, taskid,
                   maxAttempts, intervalMs>>

\* the getTaskDetail call of the current attempt settles
PollObserve(fetched) ==
    /\ pc = "awaitDetail"
    /\ LET s == SettleFetch(fetched)
       IN IF s.threw
          THEN /\ outcome' = [kind |-> "threw", error |-> s]
               /\ pc' = "done"
               /\ outstanding' = outstanding - 1
               /\ UNCHANGED <<attempt, calls, netCalls, lastRequest, sentAt,
                              waits, waitedMs, observed, nonTerminal,
                              lastDetail>>
          ELSE LET d == PollDecide(s.value, attempt, maxAttempts)
               IN /\ observed' = observed + 1
                  /\ lastDetail' = s.value
                  /\ nonTerminal' = IF RunningObservation(s.value)
                                    THEN nonTerminal + 1 ELSE nonTerminal
                  /\ CASE d.do = "return" ->
                            /\ outcome' = [kind |-> "returned", task |-> d.task]
                            /\ pc' = "done"
                            /\ outstanding' = outstanding - 1
                            /\ UNCHANGED <<attempt, calls, netCalls,
                                           lastRequest, sentAt, waits, waitedMs>>
                       [] d.do = "throw" ->
                            /\ outcome' = [kind |-> "threw", error |-> d.error]
                            /\ pc' = "done"
                            /\ outstanding' = outstanding - 1
                            /\ UNCHANGED <<attempt, calls, netCalls,
                                           lastRequest, sentAt, waits, waitedMs>>
                       [] d.do = "wait" ->
                            /\ pc' = "sleep"
                            /\ waits' = waits + 1
                            /\ waitedMs' = waitedMs + intervalMs
                            /\ outstanding' = outstanding - 1
                            /\ UNCHANGED <<attempt, calls, netCalls,
                                           lastRequest, sentAt, outcome>>
                       [] d.do = "next" ->
                            /\ PollIssue(attempt + 1, maxAttempts, intervalMs,
                                         taskid, outstanding - 1, now)
                            /\ UNCHANGED <<waits, waitedMs>>
    /\ UNCHANGED <<client, options, now, ticks, callVars, config, taskid,
                   maxAttempts, intervalMs>>

\* mutant: the timer drives the loop also while a call is outstanding
PollWake_Timer ==
    /\ pc \in {"sleep", "awaitDetail"}
    /\ now' = now + intervalMs
    /\ PollIssue(attempt + 1, maxAttempts, intervalMs, taskid, outstanding, now')
    /\ UNCHANGED <<client, options, ticks, callVars, config, taskid,
                   maxAttempts, intervalMs, waits, waitedMs, observed,
                   nonTerminal, lastDetail>>

\* the timer of the wait fires after intervalMs: attempt++ and the loop head
PollWake ==
    /\ pc = "sleep"
    /\ now' = now + intervalMs
    /\ PollIssue(attempt + 1, maxAttempts, intervalMs, taskid, outstanding, now')
    /\ UNCHANGED <<client, options, ticks, callVars, config, taskid,
                   maxAttempts, intervalMs, waits, waitedMs, observed,
                   nonTerminal, lastDetail>>

\* time passes while a call is outstanding
PollTick ==
    /\ pc = "awaitDetail"
    /\ Tick
    /\ UNCHANGED <<client, options, netCalls, lastRequest, callVars, pollVars>>

----------------------------------------------------------------------------
(* The poller runs against a client that was constructed *)

Callers == {"a", "b"}

NoCall == [state |-> "idle", op |-> "", args |-> <<>>, fetches |-> 0,
           result |-> None]

PollOptions ==
    { [apiKey |-> "test-key-123", apiSecret |-> "test-secret-456"],
      [apiKey |-> "key", apiSecret |-> "test-secret-456"] }

GivenAttempts == -1 .. MaxGivenAttempts

GivenIntervals == {0, 50}

Configs ==
    { <<>> }
    \cup { [maxAttempts |-> m] : m \in GivenAttempts }
    \cup { [intervalMs |-> i] : i \in GivenIntervals }
    \cup { [maxAttempts |-> m, intervalMs |-> i] :
             m \in GivenAttempts, i \in GivenIntervals }

TaskIds == {"", "2221"}

DetailOutcomes == { Ok(b) : b \in DetailBodies } \cup ErrorResponses

PollInit ==
    /\ options \in PollOptions
    /\ client = WiroClientConstructor(options)
    /\ client.state = "ready"
    /\ now = StartMs
    /\ ticks = 0
    /\ netCalls = 0
    /\ lastRequest = None
    /\ call = [c \in Callers |-> NoCall]
    /\ opsLeft = 0
    /\ received = [c \in Callers |-> None]
    /\ pc = "start"
    /\ config = None
    /\ taskid = ""
    /\ maxAttempts = 0
    /\ intervalMs = 0
    /\ attempt = 0
    /\ outcome = None
    /\ calls = 0
    /\ waits = 0
    /\ waitedMs = 0
    /\ outstanding = 0
    /\ observed = 0
    /\ nonTerminal = 0
    /\ lastDetail = None
    /\ sentAt = 0

PollNext ==
    \/ \E cfg \in Configs, tid \in TaskIds : PollStart(cfg, tid)
    \/ \E fetched \in DetailOutcomes : PollObserve(fetched)
    \/ PollWake
    \/ PollTick

SpecPoll == PollInit /\ [][PollNext]_vars

\* each call and each wait of the loop completes, and the function, once
\* called, runs
FairSpecPoll ==
    /\ SpecPoll
    /\ WF_vars(\E cfg \in Configs, tid \in TaskIds : PollStart(cfg, tid))
    /\ WF_vars(\E fetched \in DetailOutcomes : PollObserve(fetched))
    /\ WF_vars(PollWake)

----------------------------------------------------------------------------
(* Properties of the poller *)

PollFailedWith(msg) ==
    /\ pc = "done"
    /\ outcome.kind = "threw"
    /\ outcome.error.message = msg

\* the response observed last shows a first task with this status
LastStatusIs(st) ==
    /\ observed >= 1
    /\ Has(lastDetail, "tasklist")
    /\ Len(lastDetail.tasklist) > 0
    /\ lastDetail.tasklist[1].status = st

\* C1: when attempts 1..k-1 each observed a running first task and attempt
\* k (k <= maxAttempts) observes task_postprocess_end, the poll has returned
\* the first task of the response of attempt k, after exactly k
\* getTaskDetail calls, none of them outstanding.
C1_ReturnsAtFirstSuccess ==
    (LastStatusIs("task_postprocess_end") /\ nonTerminal = observed - 1)
        => /\ pc = "done"
           /\ outcome = [kind |-> "returned", task |-> lastDetail.tasklist[1]]
           /\ calls = observed
           /\ observed <= maxAttempts
           /\ outstanding = 0

C1_Witness ==
    /\ pc = "done"
    /\ outcome.kind = "returned"
    /\ maxAttempts = 3
    /\ calls = 3
    /\ nonTerminal = 2
    /\ Len(lastDetail.tasklist) = 2
    /\ lastDetail.tasklist[2].status = "task_cancel"

\* C2: with maxAttempts = N >= 1, when every call of the loop was answered
\* and every answer showed a running task, the poll has failed with the
\* timeout error after exactly N calls and the error reports
\* N * intervalMs / 1000 seconds.
C2_TimeoutAfterNCalls ==
    (pc = "done" /\ maxAttempts >= 1 /\ observed = calls /\ nonTerminal = observed)
        => /\ PollFailedWith("Task did not complete within")
           /\ calls = maxAttempts
           /\ SameNumber(outcome.error.seconds,
                         calculateTimeout(maxAttempts, intervalMs))

C2_Witness ==
    /\ PollFailedWith("Task did not complete within")
    /\ maxAttempts = 3
    /\ intervalMs = 50
    /\ calls = 3
    /\ nonTerminal = 3

\* C3: as soon as a response shows task_cancel the poll has failed with
\* 'Task was cancelled'; the cancelled response is the answer to the last
\* call made and no wait was scheduled after it.
C3_CancelFailsImmediately ==
    LastStatusIs("task_cancel")
        => /\ PollFailedWith("Task was cancelled")
           /\ calls = observed
           /\ waits = observed - 1
           /\ outstanding = 0

C3_Witness ==
    /\ PollFailedWith("Task was cancelled")
    /\ calls = 1
    /\ waits = 0
    /\ maxAttempts = DefaultMaxAttempts

\* C4: as soon as a response has no tasklist or an empty one the poll has
\* failed with 'Task not found in response'; that response is the answer to
\* the last call made, whatever is left of maxAttempts.
C4_EmptyListFailsImmediately ==
    (observed >= 1 /\ (~Has(lastDetail, "tasklist") \/ lastDetail.tasklist = <<>>))
        => /\ PollFailedWith("Task not found in response")
           /\ calls = observed
           /\ waits = observed - 1
           /\ outstanding = 0

C4_Witness ==
    /\ PollFailedWith("Task not found in response")
    /\ ~Has(lastDetail, "tasklist")
    /\ calls = 2
    /\ maxAttempts = 3

\* C5: a response whose first task has any status other than
\* task_postprocess_end and task_cancel, known or not, is not rejected:
\* the poll did not return and did not fail on that response; it waits for
\* the next attempt, has made the call of the next attempt, or (the
\* response being that of the last permitted attempt) has timed out.
C5_OtherStatusKeepsPolling ==
    \A st \in Statuses \ TerminalStatuses :
        LastStatusIs(st)
            => \/ /\ pc = "sleep"
                  /\ calls = observed
                  /\ observed < maxAttempts
               \/ /\ calls = observed + 1
                  /\ observed < maxAttempts
                  /\ \/ pc = "awaitDetail"
                     \/ (pc = "done" /\ outcome.kind = "threw")
               \/ /\ PollFailedWith("Task did not complete within")
                  /\ calls = observed
                  /\ observed = maxAttempts

C5_Witness ==
    /\ LastStatusIs("task_error")
    /\ pc = "awaitDetail"
    /\ calls = 2
    /\ observed = 1

\* C6: at most one getTaskDetail call of the loop is outstanding, and a
\* call is outstanding exactly while the function is suspended on it, all
\* earlier calls having settled and every answer having been looked at.
C6_CallsAreSequential ==
    /\ outstanding \in {0, 1}
    /\ (outstanding = 1) <=> (pc = "awaitDetail")
    /\ pc = "awaitDetail" => calls = observed + 1
    /\ calls <= observed + 1

C6_Witness ==
    /\ pc = "awaitDetail"
    /\ outstanding = 1
    /\ calls = 3
    /\ observed = 2

PollOutcomes ==
    { "Task was cancelled", "Task not found in response",
      "Task did not complete within",
      "getTaskDetail requires either a taskid or a tasktoken",
      "Invalid apiKey: must be at least 8 characters long",
      "Invalid apiSecret: must be at least 8 characters long",
      "Wiro API request failed", "fetch failed", "JSON Parse error" }

\* the promise is settled once the function is done and not before, in one
\* of the listed ways
OneOutcome ==
    /\ pc # "done" => outcome = None
    /\ pc = "done" =>
         \/ outcome.kind = "returned" /\ outcome.task \in Tasks
         \/ outcome.kind = "threw" /\ outcome.error.message \in PollOutcomes

Max(a, b) == IF a >= b THEN a ELSE b

\* C7 as stated: the poll terminates with exactly one outcome and has
\* issued at most maxAttempts getTaskDetail calls.
C7_Original ==
    /\ <>(pc = "done")
    /\ [](OneOutcome /\ calls <= maxAttempts)

\* C7 amended: provided each getTaskDetail call and each wait completes,
\* the poll terminates with exactly one outcome and has issued at most
\* max(maxAttempts, 0) getTaskDetail calls.
C7_TerminatesWithinBudget ==
    /\ <>(pc = "done")
    /\ [](OneOutcome /\ calls <= Max(maxAttempts, 0))

C7_Witness ==
    /\ pc = "done"
    /\ outcome.kind = "threw"
    /\ maxAttempts = -1
    /\ calls = 0

----------------------------------------------------------------------------
(* The client: construction, then operations started from the call sites *)

\* an object with the single property f
Prop(f, v) == [x \in {f} |-> v]

OptionalProp(f, values) == { <<>> } \cup { Prop(f, v) : v \in values }

\* obj1 and obj2 have no property in common: { ...obj1, ...obj2 }
Merge(obj1, obj2) ==
    [x \in DOMAIN obj1 \cup DOMAIN obj2 |->
        IF x \in DOMAIN obj1 THEN obj1[x] ELSE obj2[x]]

ApiKeys == {"", "key", "test-key-123"}

ApiSecrets == {"", "secret7", "test-secret-456"}

BaseUrls ==
    {"", "htt", "invalid-url", "ftp://api.example.com",
     "http://localhost:3000", "https://api.example.com/v1/",
     "http://localhost:3000//"}

AllOptions ==
    { Merge(Merge(k, s), u) : k \in OptionalProp("apiKey", ApiKeys),
                              s \in OptionalProp("apiSecret", ApiSecrets),
                              u \in OptionalProp("baseUrl", BaseUrls) }

TaskInfos ==
    { Merge(i, t) : i \in OptionalProp("taskid", {"", "2221"}),
                    t \in OptionalProp("tasktoken", {"", "tok"}) }

CancelArgs == OptionalProp("taskid", {"", "2221"})

TaskOpOutcomes == { Ok(b) : b \in TaskOpBodies } \cup ErrorResponses

\* new WiroClient(opts)
Construct(opts) ==
    /\ client.state = "new"
    /\ client' = WiroClientConstructor(opts)
    /\ options' = opts
    /\ UNCHANGED <<now, ticks, netCalls, lastRequest, callVars, pollVars>>

\* mutant: the signed headers of the previous request are kept and sent
\* again
Begin_CachedEnvelope(c, op, args, r) ==
    /\ call[c].state \in {"idle", "settled"}
    /\ opsLeft > 0
    /\ opsLeft' = opsLeft - 1
    /\ received' = [received EXCEPT ![c] = None]
    /\ IF r.threw
       THEN /\ call' = [call EXCEPT ![c] =
                          [state |-> "settled", op |-> op, args |-> args,
                           fetches |-> 0, result |-> r]]
            /\ UNCHANGED <<netCalls, lastRequest>>
       ELSE /\ call' = [call EXCEPT ![c] =
                          [state |-> "awaiting", op |-> op, args |-> args,
                           fetches |-> 1, result |-> None]]
            /\ netCalls' = netCalls + 1
            /\ lastRequest' =
                 IF lastRequest = None THEN r.request
                 ELSE [r.request EXCEPT !.headers =
                         [h \in DOMAIN r.request.headers |->
                            IF h \in DOMAIN lastRequest.headers
                            THEN lastRequest.headers[h]
                            ELSE r.request.headers[h]]]
    /\ UNCHANGED <<client, options, now, ticks, pollVars>>

\* call site c calls an operation of the client: r is what the code of the
\* operation yields up to its `await fetch(...)`
Begin(c, op, args, r) ==
    /\ call[c].state \in {"idle", "settled"}
    /\ opsLeft > 0
    /\ opsLeft' = opsLeft - 1
    /\ received' = [received EXCEPT ![c] = None]
    /\ IF r.threw
       THEN /\ call' = [call EXCEPT ![c] =
                          [state |-> "settled", op |-> op, args |-> args,
                           fetches |-> 0, result |-> r]]
            /\ UNCHANGED <<netCalls, lastRequest>>
       ELSE /\ call' = [call EXCEPT ![c] =
                          [state |-> "awaiting", op |-> op, args |-> args,
                           fetches |-> 1, result |-> None]]
            /\ netCalls' = netCalls + 1
            /\ lastRequest' = r.request
    /\ UNCHANGED <<client, options, now, ticks, pollVars>>

GetTaskDetail(c, taskInfo) ==
    /\ client.state = "ready"
    /\ Begin(c, "getTaskDetail", taskInfo, getTaskDetail(client, taskInfo, now))

KillTask(c, taskInfo) ==
    /\ client.state = "ready"
    /\ Begin(c, "killTask", taskInfo, killTask(client, taskInfo, now))

CancelTask(c, args) ==
    /\ client.state = "ready"
    /\ Begin(c, "cancelTask", args, cancelTask(client, args, now))

\* mutant: one pending slot is shared by the operations in progress
Complete_SharedSlot(c, fetched) ==
    /\ call[c].state = "awaiting"
    /\ call' = [d \in Callers |->
                  IF call[d].state = "awaiting"
                  THEN [call[d] EXCEPT !.state = "settled",
                                       !.result = SettleFetch(fetched)]
                  ELSE call[d]]
    /\ received' = [d \in Callers |->
                      IF call[d].state = "awaiting" THEN fetched
                      ELSE received[d]]
    /\ UNCHANGED <<clientVars, opsLeft, pollVars>>

\* the fetch of call site c settles and the operation finishes
Complete(c, fetched) ==
    /\ call[c].state = "awaiting"
    /\ call' = [call EXCEPT ![c].state = "settled",
                            ![c].result = SettleFetch(fetched)]
    /\ received' = [received EXCEPT ![c] = fetched]
    /\ UNCHANGED <<clientVars, opsLeft, pollVars>>

ClientTick ==
    /\ client.state = "ready"
    /\ Tick
    /\ UNCHANGED <<client, options, netCalls, lastRequest, callVars, pollVars>>

Init ==
    /\ client = [state |-> "new"]
    /\ options = None
    /\ now = StartMs
    /\ ticks = 0
    /\ netCalls = 0
    /\ lastRequest = None
    /\ call = [c \in Callers |-> NoCall]
    /\ opsLeft = MaxOps
    /\ received = [c \in Callers |-> None]
    /\ pc = "start"
    /\ config = None
    /\ taskid = ""
    /\ maxAttempts = 0
    /\ intervalMs = 0
    /\ attempt = 0
    /\ outcome = None
    /\ calls = 0
    /\ waits = 0
    /\ waitedMs = 0
    /\ outstanding = 0
    /\ observed = 0
    /\ nonTerminal = 0
    /\ lastDetail = None
    /\ sentAt = 0

Next ==
    \/ \E opts \in AllOptions : Construct(opts)
    \/ \E c \in Callers, taskInfo \in TaskInfos : GetTaskDetail(c, taskInfo)
    \/ \E c \in Callers, taskInfo \in TaskInfos : KillTask(c, taskInfo)
    \/ \E c \in Callers, args \in CancelArgs : CancelTask(c, args)
    \/ \E c \in Callers, fetched \in TaskOpOutcomes : Complete(c, fetched)
    \/ ClientTick

Spec == Init /\ [][Next]_vars

----------------------------------------------------------------------------
(* Operations on a constructed client, run included, started from the call *)
(* sites in any order and settled in any order                             *)

\* the files fetch can read when it transmits a body
ReadablePaths == {"/tmp/photo.jpg"}

ScalarParams ==
    Obj(<<[key |-> "prompt", value |-> Str("hi")],
          [key |-> "seed", value |-> Num(42)]>>)

ListParams ==
    Obj(<<[key |-> "tags", value |-> Arr(<<Str("a"), Num(7)>>)],
          [key |-> "mask", value |-> Null],
          [key |-> "style", value |-> Undefined],
          [key |-> "prompt", value |-> Str("hi")]>>)

RunParams == { ScalarParams, ListParams }

RunFiles ==
    { <<>>,
      <<[name |-> "inputImage", file |-> Str("C:\\img\\missing.png")]>>,
      <<[name |-> "inputImage", file |-> [type |-> "Blob"]]>>,
      <<[name |-> "inputImage", file |-> Str("/tmp/photo.jpg")],
        [name |-> "mask", file |-> [type |-> "File", name |-> "up.png"],
         filename |-> "m.png"]>> }

RunArgs ==
    { [owner |-> "wiro", model |-> "cartoonify", params |-> p] : p \in RunParams }
    \cup { [owner |-> "wiro", model |-> "cartoonify", params |-> ListParams,
            files |-> f] : f \in RunFiles }

OpsTaskInfos == { <<>>, [tasktoken |-> "tok"] }

\* bodies of the Run endpoint
RunBodies ==
    { [errors |-> <<>>, taskid |-> "2221", socketaccesstoken |-> "tok",
       result |-> TRUE],
      [errors |-> <<"Model not found">>, result |-> FALSE] }

OutcomesOf(op) ==
    { Ok(b) : b \in IF op = "run" THEN RunBodies ELSE TaskOpBodies }
    \cup ErrorResponses

OpsOutcomes == OutcomesOf("run") \cup OutcomesOf("killTask")

\* the request holds a file that cannot be read
Unreadable(args) ==
    /\ HasFiles(args)
    /\ \E i \in 1 .. Len(args.files) :
          /\ args.files[i].file.type = "string"
          /\ args.files[i].file.v \notin ReadablePaths

Run(c, args) ==
    /\ client.state = "ready"
    /\ Begin(c, "run", args, run(client, args, now))

\* the fetch of call site c settles with an outcome of its endpoint.  The
\* file behind a path is read when fetch transmits the body: when it
\* cannot be read the body is not transmitted and the fetch promise rejects.
Settle(c, fetched) ==
    /\ fetched \in OutcomesOf(call[c].op)
    /\ Unreadable(call[c].args) => fetched.kind = "reject"
    /\ Complete(c, fetched)

OpsInit ==
    /\ options \in PollOptions
    /\ client = WiroClientConstructor(options)
    /\ client.state = "ready"
    /\ now = StartMs
    /\ ticks = 0
    /\ netCalls = 0
    /\ lastRequest = None
    /\ call = [c \in Callers |-> NoCall]
    /\ opsLeft = MaxOps
    /\ received = [c \in Callers |-> None]
    /\ pc = "start"
    /\ config = None
    /\ taskid = ""
    /\ maxAttempts = 0
    /\ intervalMs = 0
    /\ attempt = 0
    /\ outcome = None
    /\ calls = 0
    /\ waits = 0
    /\ waitedMs = 0
    /\ outstanding = 0
    /\ observed = 0
    /\ nonTerminal = 0
    /\ lastDetail = None
    /\ sentAt = 0

OpsNext ==
    \/ \E c \in Callers, args \in RunArgs : Run(c, args)
    \/ \E c \in Callers, taskInfo \in OpsTaskInfos : GetTaskDetail(c, taskInfo)
    \/ \E c \in Callers, taskInfo \in OpsTaskInfos : KillTask(c, taskInfo)
    \/ \E c \in Callers, args \in CancelArgs : CancelTask(c, args)
    \/ \E c \in Callers, fetched \in OpsOutcomes : Settle(c, fetched)
    \/ ClientTick

SpecOps == OpsInit /\ [][OpsNext]_vars

----------------------------------------------------------------------------
(* The signer called on its own: generateAuthHeaders is exported, in the   *)
(* build (dist/index.js) and in the source (src/index.ts)                  *)

SignKeys == ApiKeys \cup {"prod-key-123"}

SignSecrets == ApiSecrets \cup {"test-secret-457"}

SignArgs ==
    { Merge(k, s) : k \in OptionalProp("apiKey", SignKeys),
                    s \in OptionalProp("apiSecret", SignSecrets) }

\* an argument as the tests `!x` and `x.length < 8` see it: undefined is
\* falsy like the empty string
ArgOf(args, f) == IF Has(args, f) THEN args[f] ELSE ""

\* call site c, free to call, calls a function that returns or throws
\* without suspending
Returns(c, op, args, r) ==
    /\ opsLeft > 0
    /\ opsLeft' = opsLeft - 1
    /\ call' = [call EXCEPT ![c] =
                  [state |-> "settled", op |-> op, args |-> args,
                   fetches |-> 0, result |-> r, at |-> now]]
    /\ UNCHANGED <<clientVars, received, pollVars>>

\* generateAuthHeaders of dist/index.js
GenerateAuthHeaders(c, args) ==
    /\ call[c].state \in {"idle", "settled"}
    /\ Returns(c, "generateAuthHeaders", args,
               generateAuthHeaders(ArgOf(args, "apiKey"),
                                   ArgOf(args, "apiSecret"), now))

\* generateAuthHeaders of src/auth.ts
GenerateAuthHeadersSource(c, args) ==
    /\ call[c].state \in {"idle", "settled"}
    /\ Returns(c, "src/auth.ts generateAuthHeaders", args,
               generateAuthHeadersSource(args, now))

SignerTick ==
    /\ Tick
    /\ UNCHANGED <<client, options, netCalls, lastRequest, callVars, pollVars>>

SignNext ==
    \/ \E c \in Callers, args \in SignArgs : GenerateAuthHeaders(c, args)
    \/ \E c \in Callers, args \in SignArgs : GenerateAuthHeadersSource(c, args)
    \/ SignerTick

SpecSign == Init /\ [][SignNext]_vars

----------------------------------------------------------------------------
(* Properties of the client *)

InvalidArgument(op) == op \o " requires either a taskid or a tasktoken"

\* neither taskid nor tasktoken is given: each is absent or empty
Neither(args) ==
    /\ ("taskid" \notin DOMAIN args \/ args["taskid"] = "")
    /\ ("tasktoken" \notin DOMAIN args \/ args["tasktoken"] = "")

\* in this step call site c calls getTaskDetail or killTask
Begins(c) ==
    /\ call[c].state \in {"idle", "settled"}
    /\ call'[c] # call[c]
    /\ call'[c].op \in {"getTaskDetail", "killTask"}

\* C8: a getTaskDetail or killTask call with neither taskid nor tasktoken
\* fails with the 'requires either a taskid or a tasktoken' error and hands
\* nothing to fetch; with at least one of the two given the call does not
\* fail with that error.
C8_NeitherIdNorToken ==
    [][\A c \in Callers :
         Begins(c) =>
            IF Neither(call'[c].args)
            THEN /\ call'[c].state = "settled"
                 /\ call'[c].result.threw
                 /\ call'[c].result.message = InvalidArgument(call'[c].op)
                 /\ call'[c].fetches = 0
                 /\ netCalls' = netCalls
                 /\ lastRequest' = lastRequest
            ELSE call'[c].state = "settled"
                    => call'[c].result.message # InvalidArgument(call'[c].op)]_vars

C8_Witness ==
    /\ call["a"].state = "settled"
    /\ call["a"].op = "getTaskDetail"
    /\ call["a"].args = [taskid |-> "", tasktoken |-> ""]
    /\ call["a"].fetches = 0
    /\ call["b"].state = "awaiting"
    /\ call["b"].op = "killTask"
    /\ call["b"].args = [tasktoken |-> "tok"]
    /\ netCalls = 1

CredentialMessages ==
    {"WiroClient requires an apiKey", "WiroClient requires an apiSecret"}

InvalidBaseUrl == "Invalid baseUrl: must start with http:// or https://"

\* the credential f of the options is missing, empty or shorter than 8
EmptyOrShort(opts, f) ==
    f \notin DOMAIN opts \/ opts[f] = "" \/ Len(opts[f]) < 8

Missing(opts, f) == f \notin DOMAIN opts \/ opts[f] = ""

HasScheme(url) == StartsWith(url, "http://") \/ StartsWith(url, "https://")

\* C9 as stated: construction with an empty or too-short apiKey or
\* apiSecret fails with the credential error, no request having been sent.
C9_Original ==
    (client.state # "new"
       /\ (EmptyOrShort(options, "apiKey") \/ EmptyOrShort(options, "apiSecret")))
        => /\ client.state = "failed"
           /\ client.message \in CredentialMessages
           /\ netCalls = 0

\* C9 amended: construction with a missing or empty apiKey or apiSecret
\* fails with the credential error, no request having been sent and no
\* operation started; the length of a non-empty credential never makes the
\* construction fail.
C9_EmptyCredentialFails ==
    client.state # "new" =>
        /\ (Missing(options, "apiKey") \/ Missing(options, "apiSecret"))
              => /\ client.state = "failed"
                 /\ client.message \in CredentialMessages
                 /\ netCalls = 0
                 /\ \A c \in Callers : call[c] = NoCall
        /\ (~Missing(options, "apiKey") /\ ~Missing(options, "apiSecret"))
              => \/ client.state = "ready"
                 \/ client.state = "failed" /\ client.message = InvalidBaseUrl

C9_Witness ==
    /\ client.state = "failed"
    /\ client.message = "WiroClient requires an apiSecret"
    /\ Has(options, "apiKey")
    /\ options.apiKey = "key"
    /\ Has(options, "apiSecret")
    /\ options.apiSecret = ""

\* C10: a constructed client has a base URL that begins with http:// or
\* https://; construction with a configured base URL that does not begin
\* with one of them fails with 'Invalid baseUrl'; an omitted base URL gives
\* the production endpoint.
C10_BaseUrlHasScheme ==
    client.state # "new" =>
        /\ client.state = "ready" => HasScheme(client.baseUrl)
        /\ (/\ ~Missing(options, "apiKey")
            /\ ~Missing(options, "apiSecret")
            /\ Has(options, "baseUrl")
            /\ ~HasScheme(options.baseUrl))
              => client.state = "failed" /\ client.message = InvalidBaseUrl
        /\ (client.state = "ready" /\ ~Has(options, "baseUrl"))
              => client.baseUrl = DefaultBaseUrl

----------------------------------------------------------------------------
(* Properties of the operations *)

SignedHeaders == {"xApiKey", "xNonce", "xSignature"}

Digits == <<"0", "1", "2", "3", "4", "5", "6", "7", "8", "9">>

\* the number a string of decimal digits stands for, -1 when str is not a
\* canonical decimal numeral
RECURSIVE DecimalValue(_)
DecimalValue(str) ==
    IF Len(str) = 0 THEN -1
    ELSE LET last == SubSeq(str, Len(str), Len(str))
             init == SubSeq(str, 1, Len(str) - 1)
         IN IF \A d \in 1 .. 10 : Digits[d] # last THEN -1
            ELSE LET digit == (CHOOSE d \in 1 .. 10 : Digits[d] = last) - 1
                 IN IF Len(init) = 0 THEN digit
                    ELSE IF DecimalValue(init) <= 0 THEN -1
                    ELSE 10 * DecimalValue(init) + digit

\* in this step call site c starts an operation
Starts(c) ==
    /\ call[c].state \in {"idle", "settled"}
    /\ call'[c] # call[c]

\* C11: every step that hands a request to fetch hands it exactly one
\* request, whose x-api-key is the client's apiKey, whose x-nonce is the
\* second of the clock reading of that step and whose x-signature is the
\* HMAC of apiSecret followed by that nonce; the client object holds its
\* three fields and nothing else, and no step changes it.
C11_FreshEnvelopePerCall ==
    [][/\ netCalls' # netCalls =>
            /\ netCalls' = netCalls + 1
            /\ SignedHeaders \subseteq DOMAIN lastRequest'.headers
            /\ lastRequest'.headers.xApiKey = client.apiKey
            /\ DecimalValue(lastRequest'.headers.xNonce) = now' \div 1000
            /\ lastRequest'.headers.xSignature =
                 HmacSha256Hex(client.apiKey,
                               client.apiSecret \o lastRequest'.headers.xNonce)
       /\ DOMAIN client = {"state", "apiKey", "apiSecret", "baseUrl"}
       /\ client' = client]_vars

C11_Witness ==
    /\ netCalls = 2
    /\ ticks = 1
    /\ lastRequest.headers.xNonce = "2"
    /\ call["a"].op = "getTaskDetail"
    /\ call["a"].state = "settled"
    /\ call["a"].fetches = 1
    /\ call["b"].op = "getTaskDetail"
    /\ call["b"].state = "awaiting"

\* C12: a run call that reaches fetch without files, or with an empty
\* files array, sends the JSON serialization of params and the header
\* Content-Type: application/json beside the three signed headers; with a
\* non-empty files array it sends a multipart form that holds a part for
\* each file, and its headers are the three signed headers and no other.
C12_RunBodyAndHeaders ==
    [][\A c \in Callers :
         (Starts(c) /\ call'[c].op = "run" /\ call'[c].state = "awaiting") =>
            LET args == call'[c].args
                req == lastRequest'
            IN IF "files" \notin DOMAIN args \/ args.files = <<>>
               THEN /\ req.body = [json |-> args.params]
                    /\ DOMAIN req.headers = SignedHeaders \cup {"contentType"}
                    /\ req.headers.contentType = "application/json"
               ELSE /\ DOMAIN req.body = {"form"}
                    /\ Len(req.body.form) >= Len(args.files)
                    /\ DOMAIN req.headers = SignedHeaders]_vars

C12_Witness ==
    /\ call["b"].op = "run"
    /\ call["b"].state = "settled"
    /\ call["b"].fetches = 1
    /\ "files" \in DOMAIN call["b"].args
    /\ call["b"].args.files = <<>>
    /\ call["a"].op = "run"
    /\ call["a"].state = "awaiting"
    /\ "files" \in DOMAIN call["a"].args
    /\ Len(call["a"].args.files) = 2
    /\ "form" \in DOMAIN lastRequest.body
    /\ Len(lastRequest.body.form) = 5
    /\ DOMAIN lastRequest.headers = SignedHeaders

\* C13: whatever the operation, once its fetch has settled with an HTTP
\* response whose status is not in 200..299 the call has failed with the
\* API error that carries the status, the status text and the body text of
\* that response; it has no result value, it sent its request once, and no
\* more requests were sent than operations were started.
C13_NonSuccessIsApiError ==
    /\ netCalls + opsLeft <= MaxOps
    /\ \A c \in Callers :
         (/\ received[c] # None
          /\ received[c].kind = "response"
          /\ (received[c].status < 200 \/ received[c].status > 299))
            => /\ call[c].state = "settled"
               /\ call[c].result.threw
               /\ call[c].result.message = "Wiro API request failed"
               /\ call[c].result.status = received[c].status
               /\ call[c].result.statusText = received[c].statusText
               /\ call[c].result.errorText = received[c].text
               /\ "value" \notin DOMAIN call[c].result
               /\ call[c].fetches = 1

C13_Witness ==
    /\ call["a"].op = "run"
    /\ received["a"] # None
    /\ received["a"].status = 500
    /\ call["a"].result.threw
    /\ call["b"].op = "cancelTask"
    /\ received["b"] # None
    /\ received["b"].status = 500
    /\ netCalls = 2
    /\ opsLeft = 0

\* what the operation op yields up to its fetch when it is the only call
\* made on the client cl, with these arguments at this clock reading
Alone(cl, op, args, nowMs) ==
    CASE op = "run" -> run(cl, args, nowMs)
      [] op = "getTaskDetail" -> getTaskDetail(cl, args, nowMs)
      [] op = "killTask" -> killTask(cl, args, nowMs)
      [] op = "cancelTask" -> cancelTask(cl, args, nowMs)

\* C19: a step of one call site leaves the operation of the other call
\* site and the client's fields as they are; a call that starts throws what
\* it would throw alone or sends the request it would send alone; a call
\* that settles gets the outcome that its own response gives.
C19_CallsDoNotInterfere ==
    [][\A c \in Callers :
         call'[c] # call[c] =>
            /\ \A d \in Callers \ {c} :
                  call'[d] = call[d] /\ received'[d] = received[d]
            /\ client' = client
            /\ IF call[c].state = "awaiting"
               THEN /\ call'[c].op = call[c].op
                    /\ call'[c].args = call[c].args
                    /\ call'[c].state = "settled"
                    /\ received'[c] \in OutcomesOf(call[c].op)
                    /\ call'[c].result = SettleFetch(received'[c])
                    /\ netCalls' = netCalls
               ELSE LET alone == Alone(client, call'[c].op, call'[c].args, now)
                    IN IF alone.threw
                       THEN /\ call'[c].state = "settled"
                            /\ call'[c].result = alone
                            /\ netCalls' = netCalls
                       ELSE /\ call'[c].state = "awaiting"
                            /\ lastRequest' = alone.request
                            /\ netCalls' = netCalls + 1]_vars

\* call site a started run, call site b then started killTask and has
\* settled while the run of a is still in progress
C19_Witness ==
    /\ call["a"].op = "run"
    /\ call["a"].state = "awaiting"
    /\ call["b"].op = "killTask"
    /\ call["b"].state = "settled"
    /\ call["b"].fetches = 1
    /\ ~call["b"].result.threw
    /\ lastRequest.url = client.baseUrl \o "/Task/Kill"
    /\ netCalls = 2

\* C20: a run call that got past the signer with a file descriptor whose
\* path cannot be read has, once it is over, failed with 'Failed to read
\* file at' and the reason of the I/O failure.
C20_UnreadablePathIsFileAccessError ==
    \A c \in Callers :
        (/\ call[c].op = "run"
         /\ call[c].state = "settled"
         /\ Unreadable(call[c].args)
         /\ ~generateAuthHeaders(client.apiKey, client.apiSecret, now).threw)
            => /\ call[c].result.threw
               /\ call[c].result.message = "Failed to read file at"
               /\ "errorMsg" \in DOMAIN call[c].result
               /\ call[c].result.errorMsg # ""

----------------------------------------------------------------------------
(* The error of a cancelled task *)

\* str.includes(sub)
Contains(str, sub) ==
    \E i \in 1 .. Len(str) - Len(sub) + 1 :
        SubSeq(str, i, i + Len(sub) - 1) = sub

\* the error carries the text: as a property of its own or in its message
Carries(error, text) ==
    \/ \E f \in DOMAIN error \ {"threw"} : error[f] = text
    \/ Contains(error.message, text)

\* C14: when the poll has failed with 'Task was cancelled' on a task whose
\* debugerror is not empty, the error carries that debugerror text.
C14_CancelCarriesDebugError ==
    (/\ PollFailedWith("Task was cancelled")
     /\ LastStatusIs("task_cancel")
     /\ lastDetail.tasklist[1].debugerror # "")
        => Carries(outcome.error, lastDetail.tasklist[1].debugerror)

----------------------------------------------------------------------------
(* Properties of the signer *)

SignerOps == {"generateAuthHeaders", "src/auth.ts generateAuthHeaders"}

\* call site c has called the signer with both credentials given, and the
\* signer has returned headers
Signed(c) ==
    /\ call[c].op \in SignerOps
    /\ DOMAIN call[c].args = {"apiKey", "apiSecret"}
    /\ ~call[c].result.threw

\* in how many of apiKey, apiSecret and nonce two signing runs differ
Differences(c, d) ==
    Cardinality({ f \in {"apiKey", "apiSecret"} :
                    call[c].args[f] # call[d].args[f] })
    + (IF call[c].result.headers.xNonce # call[d].result.headers.xNonce
       THEN 1 ELSE 0)

\* C15: two signing runs with the same apiKey, apiSecret and nonce give the
\* same signature; two runs that differ in exactly one of the three give
\* different signatures (the HMAC taken as free of collisions); and two
\* calls of one signer with the same arguments at the same clock reading
\* give the same outcome.
C15_SigningIsAFunction ==
    \A c, d \in Callers :
        /\ (Signed(c) /\ Signed(d) /\ Differences(c, d) = 0)
              => call[c].result.headers.xSignature
                   = call[d].result.headers.xSignature
        /\ (Signed(c) /\ Signed(d) /\ Differences(c, d) = 1)
              => call[c].result.headers.xSignature
                   # call[d].result.headers.xSignature
        /\ (/\ call[c].op \in SignerOps
            /\ call[c].op = call[d].op
            /\ call[c].args = call[d].args
            /\ call[c].at = call[d].at)
              => call[c].result = call[d].result

C15_Witness ==
    /\ Signed("a")
    /\ Signed("b")
    /\ call["a"].op = "generateAuthHeaders"
    /\ call["b"].op = "generateAuthHeaders"
    /\ call["a"].args.apiKey = call["b"].args.apiKey
    /\ call["a"].args.apiSecret = "test-secret-456"
    /\ call["b"].args.apiSecret = "test-secret-457"
    /\ call["a"].at = call["b"].at
    /\ call["a"].result.headers.xSignature # call["b"].result.headers.xSignature

C17_SignerFailsOnBadCredentialsOnly ==
    \A c \in Callers :
        call[c].op \in SignerOps =>
            /\ call[c].result.threw
                 <=> (EmptyOrShort(call[c].args, "apiKey")
                      \/ EmptyOrShort(call[c].args, "apiSecret"))
            /\ call[c].result.threw =>
                 call[c].result.message
                    \in {"Invalid apiKey: must be at least 8 characters long",
                         "Invalid apiSecret: must be at least 8 characters long"}

----------------------------------------------------------------------------
(* The waits and the failures of the poller *)

\* the waits scheduled so far are those the loop owes: one for each
\* response that showed a task in progress, except the response of the
\* last permitted attempt; a wait is pending only between the call it
\* follows and the next call
WaitsAsOwed ==
    /\ waits = nonTerminal
               - (IF nonTerminal >= 1 /\ nonTerminal = maxAttempts THEN 1 ELSE 0)
    /\ waitedMs = waits * intervalMs
    /\ pc = "sleep" => (waits = calls /\ calls < maxAttempts)
    /\ pc = "awaitDetail" => waits = calls - 1
    /\ pc = "done" => waits = Max(calls - 1, 0)

SyncFailures ==
    { "getTaskDetail requires either a taskid or a tasktoken",
      "Invalid apiKey: must be at least 8 characters long",
      "Invalid apiSecret: must be at least 8 characters long" }

\* the errors a getTaskDetail call fails with after it sent its request
AsyncFailures == { "Wiro API request failed", "fetch failed", "JSON Parse error" }

\* C22: the step in which the getTaskDetail call of attempt k fails ends
\* the poll with the error of that call, k calls having been made; no wait
\* is scheduled and no request is sent in that step, and nothing follows a
\* poll that is over.
C22_CallFailureEndsPoll ==
    [][/\ (pc = "awaitDetail" /\ outstanding' < outstanding /\ observed' = observed)
            => /\ pc' = "done"
               /\ outcome'.kind = "threw"
               /\ outcome'.error.message \in AsyncFailures
               /\ calls' = calls
               /\ calls' = attempt'
               /\ waits' = waits
               /\ netCalls' = netCalls
               /\ outstanding' = 0
       /\ (calls' = calls + 1 /\ netCalls' = netCalls)
            => /\ pc' = "done"
               /\ outcome'.kind = "threw"
               /\ outcome'.error.message \in SyncFailures
               /\ calls' = attempt'
               /\ waits' = waits
               /\ outstanding' = 0
       /\ pc = "done"
            => /\ pc' = "done"
               /\ outcome' = outcome
               /\ calls' = calls
               /\ waits' = waits
               /\ netCalls' = netCalls]_vars

C22_Witness ==
    /\ PollFailedWith("Wiro API request failed")
    /\ outcome.error.status = 500
    /\ maxAttempts = 3
    /\ calls = 2
    /\ observed = 1
    /\ waits = 1

(***************************************************************************)
(* The parts of the multipart form.                                        *)
(***************************************************************************)

\* the number of form fields owed to one entry of params
Width(entry) ==
    IF entry.value.type \in {"null", "undefined"} THEN 0
    ELSE IF entry.value.type = "array" THEN Len(entry.value.v)
    ELSE 1

\* the number of form fields owed to the first n entries
RECURSIVE WidthOfFirst(_, _)
WidthOfFirst(entries, n) ==
    IF n = 0 THEN 0 ELSE WidthOfFirst(entries, n - 1) + Width(entries[n])

\* the entries with a scalar value, and those with a list value
ScalarEntries(entries) ==
    { i \in 1 .. Len(entries) :
        entries[i].value.type \notin {"null", "undefined", "array"} }

ListEntries(entries) ==
    { i \in 1 .. Len(entries) : entries[i].value.type = "array" }

\* C23: the form of a run call with files holds, in the order of params,
\* one field for each scalar entry and one for each element of each list
\* entry, under the key of the entry and with the element as a string, no
\* field for a null or undefined entry, and after them one part for each
\* file descriptor under its name; it holds nothing else, so its length is
\* the number of scalar entries plus the lengths of the lists plus the
\* number of files.
C23_FormParts ==
    [][\A c \in Callers :
         (/\ Starts(c) /\ call'[c].op = "run" /\ call'[c].state = "awaiting"
          /\ "files" \in DOMAIN call'[c].args
          /\ call'[c].args.files # <<>>) =>
            LET entries == call'[c].args.params.entries
                files == call'[c].args.files
                form == lastRequest'.body.form
                fields == WidthOfFirst(entries, Len(entries))
            IN /\ Len(form) = fields + Len(files)
               /\ fields = Cardinality(ScalarEntries(entries))
                           + WidthOfFirst([i \in 1 .. Len(entries) |->
                                 IF i \in ListEntries(entries) THEN entries[i]
                                 ELSE [key |-> entries[i].key, value |-> Null]],
                                 Len(entries))
               /\ \A i \in ScalarEntries(entries) :
                     form[WidthOfFirst(entries, i)] =
                        [name |-> entries[i].key,
                         value |-> IF entries[i].value.type = "number"
                                   THEN ToString(entries[i].value.v)
                                   ELSE entries[i].value.v]
               /\ \A i \in ListEntries(entries) :
                     \A k \in 1 .. Len(entries[i].value.v) :
                        form[WidthOfFirst(entries, i - 1) + k] =
                           [name |-> entries[i].key,
                            value |-> IF entries[i].value.v[k].type = "number"
                                      THEN ToString(entries[i].value.v[k].v)
                                      ELSE entries[i].value.v[k].v]
               /\ \A j \in 1 .. Len(files) :
                     /\ form[fields + j].name = files[j].name
                     /\ "data" \in DOMAIN form[fields + j]
                     /\ "filename" \in DOMAIN form[fields + j]]_vars

C23_Witness ==
    /\ call["a"].op = "run"
    /\ call["a"].state = "awaiting"
    /\ "files" \in DOMAIN call["a"].args
    /\ Len(call["a"].args.files) = 2
    /\ Len(call["a"].args.params.entries) = 4
    /\ "form" \in DOMAIN lastRequest.body
    /\ [i \in 1 .. Len(lastRequest.body.form) |-> lastRequest.body.form[i].name]
         = <<"tags", "tags", "prompt", "inputImage", "mask">>
    /\ lastRequest.body.form[2].value = "7"

(***************************************************************************)
(* The response envelope.                                                  *)
(***************************************************************************)

\* C24: a run call whose fetch settled with a status in 200..299 and a
\* body that parses has returned that body as it was parsed, whatever its
\* result and errors fields hold; it has not failed.
C24_RunReturnsBodyUnchanged ==
    \A c \in Callers :
       (/\ call[c].op = "run"
        /\ received[c] # None
        /\ received[c].kind = "response"
        /\ received[c].status >= 200
        /\ received[c].status <= 299
        /\ received[c].json # None)
          => /\ call[c].state = "settled"
             /\ call[c].result = [threw |-> FALSE, value |-> received[c].json]

C24_Witness ==
    /\ call["a"].op = "run"
    /\ call["a"].state = "settled"
    /\ received["a"] # None
    /\ received["a"].kind = "response"
    /\ received["a"].status = 200
    /\ received["a"].json # None
    /\ received["a"].json.result = FALSE
    /\ received["a"].json.errors = <<"Model not found">>
    /\ ~call["a"].result.threw
    /\ call["a"].result.value.result = FALSE
    /\ call["a"].result.value.errors = <<"Model not found">>

(***************************************************************************)
(* The identifier of cancelTask.                                           *)
(***************************************************************************)

\* C25: the request that was last sent, when it went to /Task/Cancel,
\* carries a taskid that is not empty, and a cancelTask call that was given
\* no taskid, or an empty one, has sent no request.
C25_CancelRequiresTaskId ==
    /\ (lastRequest # None /\ lastRequest.url = client.baseUrl \o "/Task/Cancel")
          => /\ "taskid" \in DOMAIN lastRequest.body.json
             /\ lastRequest.body.json.taskid # ""
    /\ \A c \in Callers :
          (/\ call[c].op = "cancelTask"
           /\ ("taskid" \notin DOMAIN call[c].args \/ call[c].args.taskid = ""))
             => /\ call[c].fetches = 0
                /\ call[c].state = "settled"
                /\ call[c].result.threw

(***************************************************************************)
(* The base URL of the requests.                                           *)
(***************************************************************************)

EndsWith(s, suffix) ==
    Len(s) >= Len(suffix) /\ SubSeq(s, Len(s) - Len(suffix) + 1, Len(s)) = suffix

\* the paths of the operations of the client
OperationPaths == {"/Task/Detail", "/Task/Kill", "/Task/Cancel"}

\* the request that was last sent went to the stored base URL followed by
\* the path of an operation
UrlIsBasePlusPath ==
    lastRequest # None =>
       \E path \in OperationPaths : lastRequest.url = client.baseUrl \o path

\* C26 as claimed: the stored base URL of a constructed client never ends
\* with a slash.
C26_Original ==
    /\ client.state = "ready" => ~EndsWith(client.baseUrl, "/")
    /\ UrlIsBasePlusPath

\* C26: the stored base URL of a constructed client is the configured one
\* (or the default) without its last character when that is a slash, so it
\* ends with a slash only when the configured one ended with two; every
\* request goes to the stored base URL followed by the operation's path.
C26_OneTrailingSlashStripped ==
    /\ client.state = "ready" =>
          LET given == IF "baseUrl" \in DOMAIN options
                       THEN options.baseUrl ELSE "https://api.wiro.ai/v1"
          IN /\ \/ /\ ~EndsWith(given, "/")
                   /\ client.baseUrl = given
                \/ /\ EndsWith(given, "/")
                   /\ client.baseUrl \o "/" = given
             /\ EndsWith(client.baseUrl, "/") <=> EndsWith(given, "//")
    /\ UrlIsBasePlusPath

C26_Witness ==
    /\ client.state = "ready"
    /\ "baseUrl" \in DOMAIN options
    /\ options.baseUrl = "https://api.example.com/v1/"
    /\ client.baseUrl = "https://api.example.com/v1"
    /\ lastRequest # None
    /\ lastRequest.url = "https://api.example.com/v1/Task/Cancel"

(***************************************************************************)
(* The configuration of the poller.                                        *)
(***************************************************************************)

\* C27: once waitForTaskCompletion has been called, its maxAttempts and
\* intervalMs are those of the config when the config holds them, zero
\* included, and 60 and 2000 when it does not; with a maxAttempts of zero
\* or less the call has made no getTaskDetail call and no wait and has
\* failed with the timeout error, which reports maxAttempts * intervalMs /
\* 1000 seconds.
C27_ZeroAttemptsAndDefaults ==
    pc # "start" =>
       /\ maxAttempts = IF "maxAttempts" \in DOMAIN config
                        THEN config.maxAttempts ELSE 60
       /\ intervalMs = IF "intervalMs" \in DOMAIN config
                       THEN config.intervalMs ELSE 2000
       /\ maxAttempts <= 0 =>
             /\ pc = "done"
             /\ calls = 0
             /\ netCalls = 0
             /\ waits = 0
             /\ waitedMs = 0
             /\ outcome.kind = "threw"
             /\ outcome.error.message = "Task did not complete within"
             /\ outcome.error.seconds.num * 1000
                  = maxAttempts * intervalMs * outcome.error.seconds.den

C27_Witness ==
    /\ pc = "done"
    /\ config = [maxAttempts |-> 0, intervalMs |-> 0]
    /\ maxAttempts = 0
    /\ intervalMs = 0
    /\ calls = 0
    /\ waits = 0
    /\ PollFailedWith("Task did not complete within")
    /\ outcome.error.seconds.num = 0

(***************************************************************************)
(* Requests of one second.                                                 *)
(***************************************************************************)

\* C28: when the poller sends a request in the same second of the clock
\* as its previous request, the two carry the same x-nonce and the same
\* x-signature; and the x-nonce of a request, read as a number, is never
\* below that of the previous request when the clock has not gone back.
C28_SameSecondSameEnvelope ==
    [][(netCalls >= 1 /\ netCalls' = netCalls + 1) =>
          /\ sentAt' = now'
          /\ (sentAt' \div 1000 = sentAt \div 1000) =>
                /\ lastRequest'.headers.xNonce = lastRequest.headers.xNonce
                /\ lastRequest'.headers.xSignature = lastRequest.headers.xSignature
          /\ (sentAt' >= sentAt) =>
                DecimalValue(lastRequest'.headers.xNonce)
                   >= DecimalValue(lastRequest.headers.xNonce)]_vars

C28_Witness ==
    /\ netCalls = 3
    /\ intervalMs = 50
    /\ ticks = 0
    /\ sentAt = StartMs + 100
    /\ lastRequest.headers.xNonce = "1"
    /\ lastRequest.headers.xSignature
         = HmacSha256Hex(client.apiKey, client.apiSecret \o "1")

(***************************************************************************)
(* Responses that hold several tasks.                                      *)
(***************************************************************************)

\* C29: in the step in which the poller looks at a response that holds at
\* least one task, what it does follows from the status of the first task
\* alone: task_postprocess_end returns that first task, task_cancel fails
\* with the cancellation error, and any other status neither returns nor
\* fails with the cancellation error but waits, or, on the last attempt,
\* fails with the timeout error; the tasks after the first change nothing.
\* A returned task is the first task of the last response.
C29_FirstTaskDecides ==
    [][/\ (/\ observed' = observed + 1
           /\ "tasklist" \in DOMAIN lastDetail'
           /\ lastDetail'.tasklist # <<>>) =>
             LET first == lastDetail'.tasklist[1]
             IN /\ first.status = "task_postprocess_end" =>
                      /\ pc' = "done"
                      /\ outcome' = [kind |-> "returned", task |-> first]
                /\ first.status = "task_cancel" =>
                      /\ pc' = "done"
                      /\ outcome'.kind = "threw"
                      /\ outcome'.error.message = "Task was cancelled"
                /\ first.status \notin {"task_postprocess_end", "task_cancel"} =>
                      IF attempt < maxAttempts
                      THEN /\ pc' = "sleep"
                           /\ outcome' = outcome
                           /\ outcome'.kind = "none"
                      ELSE /\ pc' = "done"
                           /\ outcome'.kind = "threw"
                           /\ outcome'.error.message = "Task did not complete within"
       /\ outcome'.kind = "returned" =>
             outcome'.task = lastDetail'.tasklist[1]]_vars

C29_Witness ==
    /\ pc = "sleep"
    /\ observed = 1
    /\ Len(lastDetail.tasklist) = 2
    /\ lastDetail.tasklist[1].status = "task_queue"
    /\ lastDetail.tasklist[2].status = "task_cancel"
    /\ outcome.kind = "none"

(***************************************************************************)
(* The secret stays with the client.                                       *)
(***************************************************************************)

\* a second secret, as valid as the client's
OtherSecret == "other-secret-789"

\* the headers of a request apart from the signature
Unsigned(headers) == [h \in DOMAIN headers \ {"xSignature"} |-> headers[h]]

\* C30: a request an operation sends is, but for its x-signature, the
\* request the same operation sends with the same arguments at the same
\* clock reading on a client that differs in apiSecret only: same URL, same
\* body, same other headers.  The secret is in no URL and in no header
\* that is sent as text, the x-signature being the digest keyed by apiKey,
\* and in no message of an error that a call failed with.
C30_SecretNeverSent ==
    [][\A c \in Callers :
         /\ (Starts(c) /\ call'[c].state = "awaiting") =>
               LET twin == [client EXCEPT !.apiSecret = OtherSecret]
                   other == Alone(twin, call'[c].op, call'[c].args, now)
                   sent == lastRequest'
               IN /\ ~other.threw
                  /\ other.request.url = sent.url
                  /\ other.request.body = sent.body
                  /\ Unsigned(other.request.headers) = Unsigned(sent.headers)
                  /\ other.request.headers.xSignature # sent.headers.xSignature
                  /\ ~Contains(sent.url, client.apiSecret)
                  /\ \A h \in DOMAIN Unsigned(sent.headers) :
                        ~Contains(sent.headers[h], client.apiSecret)
                  /\ sent.headers.xSignature =
                        HmacSha256Hex(client.apiKey,
                                      client.apiSecret \o sent.headers.xNonce)
         /\ (call'[c].state = "settled" /\ call'[c].result.threw) =>
               /\ ~Contains(call'[c].result.message, client.apiSecret)
               /\ \A f \in DOMAIN call'[c].result \ {"threw", "status"} :
                     call'[c].result[f] # client.apiSecret]_vars

C30_Witness ==
    /\ client.apiSecret = "test-secret-456"
    /\ call["a"].op = "run"
    /\ call["a"].state = "settled"
    /\ call["a"].fetches = 1
    /\ call["a"].result.threw
    /\ call["b"].op = "cancelTask"
    /\ call["b"].state = "awaiting"
    /\ lastRequest.headers.xApiKey = "test-key-123"
    /\ lastRequest.headers.xSignature
         = HmacSha256Hex("test-key-123", "test-secret-456" \o lastRequest.headers.xNonce)

====
